---------------------------- MODULE Spec2Model ----------------------------
(***************************************************************************)
(* A model of two classes of the Shark library:                            *)
(*                                                                         *)
(*   OnlineRNNet  (include/shark/Models/OnlineRNNet.h): a recurrent        *)
(*                network fed one time step at a time, with the state of   *)
(*                a sequence held in an InternalState object;              *)
(*   MeanModel    (include/shark/Models/MeanModel.h): a weighted ensemble  *)
(*                of models.                                               *)
(*                                                                         *)
(* Spec is the state machine of one OnlineRNNet and the state object of    *)
(* one sequence (with a twin state object that receives the same steps),   *)
(* MeanSpec the state machine of one MeanModel.  The bodies of             *)
(* eval(pattern, output, state) and weightedParameterDerivative and the    *)
(* class RecurrentStructure are not part of the header; they are modelled  *)
(* from the design description of the evaluator.                           *)
(*                                                                         *)
(* Real numbers are fixed-point values with six fractional bits: the       *)
(* integer n stands for n / Scale.  Every value the checked runs compute   *)
(* from the weights 0, 1/2 and 1 within a few steps is such a dyadic       *)
(* number, on which double arithmetic is exact as well.                    *)
(***************************************************************************)
EXTENDS Integers, Sequences, FiniteSets

VARIABLES
    structure,          \* OnlineRNNet::mpe_structure, the topology
    m_computeGradient,  \* OnlineRNNet::m_computeGradient
    state,              \* the InternalState made by createState, or NoState
    twin,               \* a second state object, created with state and fed
                        \* the same patterns and output activations, on
                        \* which weightedParameterDerivative is never called
    hist,               \* the step / setOutputActivation calls made on state
    result,             \* what the last call returned or threw
    m_models,           \* MeanModel::m_models
    m_weight,           \* MeanModel::m_weight
    m_weightSum,        \* MeanModel::m_weightSum
    meanResult          \* what the last MeanModel call returned or threw

rnnVars == <<structure, m_computeGradient, state, twin, hist, result>>
meanVars == <<m_models, m_weight, m_weightSum, meanResult>>
vars == <<structure, m_computeGradient, state, twin, hist, result,
          m_models, m_weight, m_weightSum, meanResult>>

----------------------------------------------------------------------------
(* Bounds of the model.                                                    *)

\* The longest sequence of step and setOutputActivation calls on one state.
MaxCalls == 4

\* The largest number of models held by the ensemble.
MaxModels == 3

----------------------------------------------------------------------------
(* Fixed-point numbers.                                                    *)

Scale == 2 ^ 6
One == Scale
Half == Scale \div 2
Quarter == Scale \div 4

Mul(a, b) == (a * b) \div Scale

RECURSIVE SumTo(_, _)
\* f[1] + ... + f[n]
SumTo(f, n) == IF n = 0 THEN 0 ELSE SumTo(f, n - 1) + f[n]

\* No vector: the value of a call that returns nothing, and the unallocated
\* vectors of the state object that does not exist yet.
NoValue == <<>>
NoState == [activation |-> NoValue, lastActivation |-> NoValue,
            unitGradient |-> NoValue]

----------------------------------------------------------------------------
(* The topology (RecurrentStructure), an external collaborator of the      *)
(* evaluator.  Units are numbered inputs first, then the bias unit, then   *)
(* the neurons; the outputs are the last units.  weight[k][l] is the       *)
(* weight of the connection into neuron k from unit l, param[k][l] the     *)
(* index of the parameter that owns it (0: a constant connection), and     *)
(* ff[k][l] tells a connection read at the current step from one read at   *)
(* the previous step.                                                      *)

\* 1 input, 1 self-recurrent neuron that is the output, identity
\* activation; parameter 1 is the recurrent weight w = 1/2, parameter 2 the
\* input weight v = 1.
SingleNeuron ==
    [inputs |-> 1, neurons |-> 1, outputs |-> 1, parameters |-> 2,
     fn |-> "identity",
     weight |-> << <<One, 0, Half>> >>,
     param  |-> << <<2, 0, 1>> >>,
     ff     |-> << <<FALSE, FALSE, FALSE>> >>]

\* 2 inputs, 2 fully recurrent neurons, 1 output, rectified activation.
TwoByTwo ==
    [inputs |-> 2, neurons |-> 2, outputs |-> 1, parameters |-> 5,
     fn |-> "rectifier",
     weight |-> << <<One, Half, Half, 0, Half>>,
                   <<0 - One, One, 0, One, Half>> >>,
     param  |-> << <<1, 2, 3, 0, 4>>,
                   <<0, 5, 0, 0, 4>> >>,
     ff     |-> << <<FALSE, FALSE, FALSE, FALSE, FALSE>>,
                   <<FALSE, FALSE, FALSE, FALSE, FALSE>> >>]

\* 1 input, 2 neurons that are both outputs; neuron 2 reads neuron 1 at the
\* current step (a feed-forward connection) and itself at the previous one.
FeedForward ==
    [inputs |-> 1, neurons |-> 2, outputs |-> 2, parameters |-> 3,
     fn |-> "identity",
     weight |-> << <<Half, One, 0, 0>>,
                   <<0, 0, One, Half>> >>,
     param  |-> << <<1, 0, 0, 0>>,
                   <<0, 0, 2, 3>> >>,
     ff     |-> << <<FALSE, FALSE, FALSE, FALSE>>,
                   <<FALSE, FALSE, TRUE, FALSE>> >>]

Topologies == {SingleNeuron, TwoByTwo, FeedForward}

inputSize(s) == s.inputs
outputSize(s) == s.outputs
numberOfNeurons(s) == s.neurons
numberOfParameters(s) == s.parameters
bias(s) == s.inputs + 1
numberOfUnits(s) == s.inputs + 1 + s.neurons

\* The activation function of the neurons and its derivative.
Neuron(fn, x) == IF fn = "rectifier" /\ x < 0 THEN 0 ELSE x
NeuronDerivative(fn, x) == IF fn = "rectifier" /\ x < 0 THEN 0 ELSE One

\* The value vectors the callers pass.
Values == {0, One}
Vectors(n) == [1..n -> Values]

\* The patterns the callers pass: those of the input size, and one that is
\* one entry too long.
Patterns(s) == Vectors(inputSize(s)) \cup {[i \in 1..(inputSize(s) + 1) |-> One]}

----------------------------------------------------------------------------
(* OnlineRNNet::InternalState and the operations on it.                    *)

\* Variants of the constructor with a slip in it: lastActivation sized by
\* the neurons instead of the units; unitGradient allocated but not filled
\* with zeros; the activations filled with 1 instead of 0.
InternalStateNeuronSized(s) ==
    [activation     |-> [i \in 1..numberOfUnits(s) |-> 0],
     lastActivation |-> [i \in 1..numberOfNeurons(s) |-> 0],
     unitGradient   |-> [p \in 1..numberOfParameters(s) |->
                            [k \in 1..numberOfNeurons(s) |-> 0]]]
InternalStateUnfilled(s) ==
    [activation     |-> [i \in 1..numberOfUnits(s) |-> 0],
     lastActivation |-> [i \in 1..numberOfUnits(s) |-> 0],
     unitGradient   |-> [p \in 1..numberOfParameters(s) |->
                            [k \in 1..numberOfNeurons(s) |-> One]]]
InternalStateOnes(s) ==
    [activation     |-> [i \in 1..numberOfUnits(s) |-> One],
     lastActivation |-> [i \in 1..numberOfUnits(s) |-> One],
     unitGradient   |-> [p \in 1..numberOfParameters(s) |->
                            [k \in 1..numberOfNeurons(s) |-> 0]]]

\* InternalState::InternalState(structure): both activation vectors and the
\* unitGradient matrix (parameters x neurons) are allocated, zero-filled,
\* whatever m_computeGradient is.
InternalState(s) ==
    [activation     |-> [i \in 1..numberOfUnits(s) |-> 0],
     lastActivation |-> [i \in 1..numberOfUnits(s) |-> 0],
     unitGradient   |-> [p \in 1..numberOfParameters(s) |->
                            [k \in 1..numberOfNeurons(s) |-> 0]]]

\* The first unit of the output range, less one.
OutputOffset(s) == numberOfUnits(s) - outputSize(s)

\* v resized to n entries: the entries kept, new ones zero.
Resize(v, n) == [i \in 1..n |-> IF i <= Len(v) THEN v[i] ELSE 0]

\* Variants of setOutputActivation with a slip in it: the values assigned to
\* the first outputSize entries; the values assigned to lastActivation.
SetOutputFirstEntries(s, st, values) ==
    [st EXCEPT !.activation =
        [i \in 1..numberOfUnits(s) |->
            IF i <= outputSize(s) THEN values[i] ELSE st.activation[i]]]
SetOutputOfLastActivation(s, st, values) ==
    [st EXCEPT !.lastActivation =
        [i \in 1..numberOfUnits(s) |->
            IF i > OutputOffset(s)
            THEN values[i - OutputOffset(s)]
            ELSE st.lastActivation[i]]]

\* The body of setOutputActivation: the activation vector resized to
\* numberOfUnits, then its last outputSize entries assigned from values.
SetOutput(s, st, values) ==
    LET resized == Resize(st.activation, numberOfUnits(s))
    IN  [st EXCEPT !.activation =
            [i \in 1..numberOfUnits(s) |->
                IF i > OutputOffset(s)
                THEN values[i - OutputOffset(s)]
                ELSE resized[i]]]

\* The value neuron k reads over its connection from unit l: inputs, the
\* bias and feed-forward connections read the current step, the others the
\* previous step.
Source(s, k, l, act, last) ==
    IF l <= bias(s) \/ s.ff[k][l] THEN act[l] ELSE last[l]

\* The weighted sum into neuron k.
PreActivation(s, k, act, last) ==
    SumTo([l \in 1..numberOfUnits(s) |->
              Mul(s.weight[k][l], Source(s, k, l, act, last))],
          numberOfUnits(s))

RECURSIVE Forward(_, _, _, _)
\* The activation vector with neurons 1..k computed, in index order.
Forward(s, act, last, k) ==
    IF k = 0 THEN act
    ELSE LET a == Forward(s, act, last, k - 1)
         IN  [a EXCEPT ![bias(s) + k] =
                 Neuron(s.fn, PreActivation(s, k, a, last))]

\* The direct term of the recurrence: the values flowing over the
\* connections into neuron k whose weight is parameter p.
DirectTerm(s, p, k, act, last) ==
    SumTo([l \in 1..numberOfUnits(s) |->
              IF s.param[k][l] = p THEN Source(s, k, l, act, last) ELSE 0],
          numberOfUnits(s))

\* The propagated term: the sensitivities of the neurons feeding neuron k,
\* those of this step (new) over feed-forward connections and those of the
\* previous step (old) over recurrent ones.
PropagatedTerm(s, p, k, new, old) ==
    SumTo([j \in 1..numberOfNeurons(s) |->
              Mul(s.weight[k][bias(s) + j],
                  IF s.ff[k][bias(s) + j] THEN new[p][j] ELSE old[p][j])],
          numberOfNeurons(s))

RECURSIVE Sensitivity(_, _, _, _, _)
\* The sensitivity tensor with the entries of neurons 1..k advanced by one
\* step; act is the activation vector after the forward step.
Sensitivity(s, act, last, old, k) ==
    IF k = 0 THEN old
    ELSE LET g == Sensitivity(s, act, last, old, k - 1)
         IN  [p \in 1..numberOfParameters(s) |->
                 [g[p] EXCEPT ![k] =
                     Mul(NeuronDerivative(s.fn, PreActivation(s, k, act, last)),
                         PropagatedTerm(s, p, k, g, old)
                             + DirectTerm(s, p, k, act, last))]]

\* The activation vector with the input pattern and the bias in place.
WithInput(s, act, x) ==
    [i \in 1..numberOfUnits(s) |->
        IF i <= inputSize(s) THEN x[i]
        ELSE IF i = bias(s) THEN One
        ELSE act[i]]

\* One time step, eval(pattern, output, state): the activation becomes the
\* previous activation, the pattern is copied in, the neurons are computed,
\* and the sensitivities are advanced when gradients are computed.
StepState(s, grad, st, x) ==
    LET last == st.activation
        act  == Forward(s, WithInput(s, st.activation, x), last,
                        numberOfNeurons(s))
    IN  [activation     |-> act,
         lastActivation |-> last,
         unitGradient   |->
            IF grad
            THEN Sensitivity(s, act, last, st.unitGradient, numberOfNeurons(s))
            ELSE st.unitGradient]

\* The output of a step: the output range of the activation vector.
Output(s, st) == [c \in 1..outputSize(s) |-> st.activation[OutputOffset(s) + c]]

\* gradient[p] = sum over the outputs c of coefficients[c] * sensitivity of
\* output neuron c to parameter p.
Contract(s, st, coefficients) ==
    [p \in 1..numberOfParameters(s) |->
        SumTo([c \in 1..outputSize(s) |->
                  Mul(coefficients[c],
                      st.unitGradient[p][numberOfNeurons(s) - outputSize(s) + c])],
              outputSize(s))]

\* A variant of weightedParameterDerivative that clears the sensitivities it
\* has read.
DerivativeStateCleared(st) ==
    [st EXCEPT !.unitGradient =
        [p \in DOMAIN st.unitGradient |->
            [k \in DOMAIN st.unitGradient[p] |-> 0]]]

\* The state after weightedParameterDerivative, which takes it by reference
\* to const.
DerivativeState(st) == st

Returned(call, arg, value) ==
    [call |-> call, status |-> "ok", arg |-> arg, value |-> value]
Threw(call, arg, what) ==
    [call |-> call, status |-> what, arg |-> arg, value |-> NoValue]

----------------------------------------------------------------------------
(* The state machine of one OnlineRNNet.                                   *)

RnnInit ==
    /\ structure \in Topologies
    /\ m_computeGradient \in BOOLEAN
    /\ state = NoState
    /\ twin = NoState
    /\ hist = <<>>
    /\ result = Returned("OnlineRNNet", NoValue, NoValue)

\* createState(): a new state object, which starts a new sequence.
CreateState ==
    /\ state' = InternalState(structure)
    /\ twin' = InternalState(structure)
    /\ hist' = <<>>
    /\ result' = Returned("createState", NoValue, NoValue)
    /\ UNCHANGED <<structure, m_computeGradient>>
    /\ UNCHANGED meanVars

\* eval(pattern, output, state): one time step.  A pattern of the wrong
\* size is refused and the state left as it was.
EvalState(x) ==
    /\ state # NoState
    /\ Len(hist) < MaxCalls
    /\ \/ /\ Len(x) # inputSize(structure)
          /\ result' = Threw("evalState", x, "size mismatch")
          /\ UNCHANGED <<state, twin, hist>>
       \/ /\ Len(x) = inputSize(structure)
          /\ state' = StepState(structure, m_computeGradient, state, x)
          /\ twin' = StepState(structure, m_computeGradient, twin, x)
          /\ hist' = Append(hist, [op |-> "evalState", arg |-> x])
          /\ result' = Returned("evalState", x, Output(structure, state'))
    /\ UNCHANGED <<structure, m_computeGradient>>
    /\ UNCHANGED meanVars

\* A variant of eval(pattern, output) that answers with an output of zeros
\* instead of throwing.
EvalNoStateAnswers(x) ==
    /\ result' = Returned("eval", x, [c \in 1..outputSize(structure) |-> 0])
    /\ UNCHANGED <<structure, m_computeGradient, state, twin, hist>>
    /\ UNCHANGED meanVars

\* eval(pattern, output): always throws.
EvalNoState(x) ==
    /\ result' = Threw("eval", x, "Eval can not be called without state object")
    /\ UNCHANGED <<structure, m_computeGradient, state, twin, hist>>
    /\ UNCHANGED meanVars

\* setOutputActivation(state, activation).
SetOutputActivation(values) ==
    /\ state # NoState
    /\ Len(hist) < MaxCalls
    /\ state' = SetOutput(structure, state, values)
    /\ twin' = SetOutput(structure, twin, values)
    /\ hist' = Append(hist, [op |-> "setOutputActivation", arg |-> values])
    /\ result' = Returned("setOutputActivation", values, NoValue)
    /\ UNCHANGED <<structure, m_computeGradient>>
    /\ UNCHANGED meanVars

\* weightedParameterDerivative(pattern, coefficients, state, gradient):
\* refused by a network that does not compute gradients.
WeightedParameterDerivative(coefficients) ==
    /\ state # NoState
    /\ \/ /\ ~m_computeGradient
          /\ result' = Threw("weightedParameterDerivative", coefficients,
                             "not computing gradients")
       \/ /\ m_computeGradient
          /\ result' = Returned("weightedParameterDerivative", coefficients,
                                Contract(structure, state, coefficients))
    /\ state' = DerivativeState(state)
    /\ UNCHANGED <<structure, m_computeGradient, twin, hist>>
    /\ UNCHANGED meanVars

Next ==
    \/ CreateState
    \/ \E x \in Patterns(structure) : EvalState(x)
    \/ \E x \in Patterns(structure) : EvalNoState(x)
    \/ \E v \in Vectors(outputSize(structure)) : SetOutputActivation(v)
    \/ \E c \in Vectors(outputSize(structure)) : WeightedParameterDerivative(c)

----------------------------------------------------------------------------
(* MeanModel: the weighted mean of a set of models.  A model is named by a *)
(* number, and model m answers the pattern x with ModelOutput(m, x).       *)

Models == {1, 2}
MeanPatterns == {1, 2}
ModelOutput(m, x) == m * x

\* The weights the callers pass; addModel takes only those above zero.
Weights == {0 - 1, 0, 1, 2}

MeanInit ==
    /\ m_models = <<>>
    /\ m_weight = <<>>
    /\ m_weightSum = 0
    /\ meanResult = Returned("MeanModel", NoValue, NoValue)

\* clearModels().
ClearModels ==
    /\ m_models' = <<>>
    /\ m_weight' = <<>>
    /\ m_weightSum' = 0
    /\ meanResult' = Returned("clearModels", NoValue, NoValue)
    /\ UNCHANGED rnnVars

\* addModel(model, weight): SHARK_RUNTIME_CHECK(weight > 0) throws before
\* anything is stored.
AddModel(model, weight) ==
    /\ Len(m_models) < MaxModels
    /\ \/ /\ ~(weight > 0)
          /\ meanResult' = Threw("addModel", <<model, weight>>,
                                 "Weights must be positive")
          /\ UNCHANGED <<m_models, m_weight, m_weightSum>>
       \/ /\ weight > 0
          /\ m_models' = Append(m_models, model)
          /\ m_weight' = Append(m_weight, weight)
          /\ m_weightSum' = m_weightSum + weight
          /\ meanResult' = Returned("addModel", <<model, weight>>, NoValue)
    /\ UNCHANGED rnnVars

\* setWeight(i, newWeight), i counted from 0 as in the code.
SetWeight(i, newWeight) ==
    /\ i < Len(m_weight)
    /\ m_weightSum' = newWeight - m_weight[i + 1]
    /\ m_weight' = [m_weight EXCEPT ![i + 1] = newWeight]
    /\ meanResult' = Returned("setWeight", <<i, newWeight>>, NoValue)
    /\ UNCHANGED m_models
    /\ UNCHANGED rnnVars

RECURSIVE Accumulate(_, _, _, _)
\* The loop of doEval: the outputs of models 1..n, each times its weight,
\* added up in index order.
Accumulate(models, weight, x, n) ==
    IF n = 1 THEN ModelOutput(models[1], x) * weight[1]
    ELSE Accumulate(models, weight, x, n - 1)
            + weight[n] * ModelOutput(models[n], x)

\* eval(patterns, outputs) on real-valued outputs: the accumulated sum
\* divided by m_weightSum.  The quotient is kept as the pair <<dividend,
\* divisor>>; a divisor of 0 is the floating-point division by zero.
MeanEval(x) ==
    /\ Len(m_models) > 0
    /\ meanResult' = Returned("eval", <<x>>,
            <<Accumulate(m_models, m_weight, x, Len(m_models)), m_weightSum>>)
    /\ UNCHANGED <<m_models, m_weight, m_weightSum>>
    /\ UNCHANGED rnnVars

NextMean ==
    \/ ClearModels
    \/ \E m \in Models, w \in Weights : AddModel(m, w)
    \/ \E i \in 0..(MaxModels - 1), w \in Weights : SetWeight(i, w)
    \/ \E x \in MeanPatterns : MeanEval(x)

----------------------------------------------------------------------------
(* The two specifications.                                                 *)

RnnIdle ==
    /\ structure = SingleNeuron
    /\ m_computeGradient = FALSE
    /\ state = NoState
    /\ twin = NoState
    /\ hist = <<>>
    /\ result = Returned("OnlineRNNet", NoValue, NoValue)

Init == RnnInit /\ MeanInit

Spec == Init /\ [][Next]_vars

InitMean == RnnIdle /\ MeanInit

MeanSpec == InitMean /\ [][NextMean]_vars

----------------------------------------------------------------------------
(* Properties of OnlineRNNet, checked under Spec.                          *)

Created == state # NoState

Units == 1..numberOfUnits(structure)
OutputUnits == {i \in Units : i > OutputOffset(structure)}

\* C1: setOutputActivation(state, values) makes the last outputSize entries
\* of activation equal to values and changes nothing else: the other
\* entries of activation, its length, lastActivation and unitGradient are
\* as before the call.
C1_SetOutputChangesOnlyOutputSlots ==
    [][result'.call = "setOutputActivation" =>
          /\ DOMAIN state'.activation = DOMAIN state.activation
          /\ \A i \in Units \ OutputUnits :
                state'.activation[i] = state.activation[i]
          /\ \A i \in OutputUnits :
                state'.activation[i] = result'.arg[i - OutputOffset(structure)]
          /\ state'.lastActivation = state.lastActivation
          /\ state'.unitGradient = state.unitGradient]_vars

\* A setOutputActivation call, after a step that computed gradients, whose
\* values differ from the outputs the step computed.
C1_Witness ==
    /\ result.call = "setOutputActivation"
    /\ m_computeGradient
    /\ Len(hist) >= 2
    /\ hist[Len(hist) - 1].op = "evalState"
    /\ numberOfUnits(structure) > outputSize(structure) + 1
    /\ \E p \in DOMAIN state.unitGradient :
          \E k \in DOMAIN state.unitGradient[p] : state.unitGradient[p][k] # 0
    /\ \E i \in Units \ OutputUnits : state.activation[i] # 0

\* C2: a state created by a network that does not compute gradients has no
\* sensitivity matrix, and weightedParameterDerivative on it fails.
C2_NoGradientStateHasNoSensitivity ==
    (Created /\ ~m_computeGradient) =>
        /\ state.unitGradient = NoValue
        /\ result.call = "weightedParameterDerivative" => result.status # "ok"

\* C3: eval without a state object throws on every call, returns no output
\* and leaves the state object as it was.
C3_EvalWithoutStateAlwaysFails ==
    [][result'.call = "eval" =>
          /\ result'.status # "ok"
          /\ result'.value = NoValue
          /\ state' = state]_vars

\* eval without a state object was called in the middle of a sequence.
C3_Witness ==
    /\ result.call = "eval"
    /\ Created
    /\ Len(hist) >= 2

\* C4: activation and lastActivation have numberOfUnits entries, and
\* unitGradient has numberOfParameters rows of numberOfNeurons entries, in
\* every state reached from createState.
C4_StateShape ==
    Created =>
        /\ DOMAIN state.activation = 1..numberOfUnits(structure)
        /\ DOMAIN state.lastActivation = 1..numberOfUnits(structure)
        /\ DOMAIN state.unitGradient = 1..numberOfParameters(structure)
        /\ \A p \in DOMAIN state.unitGradient :
              DOMAIN state.unitGradient[p] = 1..numberOfNeurons(structure)

\* A state that has seen a step, a setOutputActivation and a gradient call.
C4_Witness ==
    /\ Created
    /\ result.call = "weightedParameterDerivative"
    /\ \E i, j \in DOMAIN hist :
          hist[i].op = "evalState" /\ hist[j].op = "setOutputActivation"

\* C5: right after createState every entry of activation, lastActivation
\* and unitGradient is zero, whatever the topology.
C5_FreshStateIsZero ==
    result.call = "createState" =>
        /\ \A i \in DOMAIN state.activation : state.activation[i] = 0
        /\ \A i \in DOMAIN state.lastActivation : state.lastActivation[i] = 0
        /\ \A p \in DOMAIN state.unitGradient :
              \A k \in DOMAIN state.unitGradient[p] :
                 state.unitGradient[p][k] = 0

\* A state created for a topology whose weights are not all zero.
C5_Witness ==
    /\ result.call = "createState"
    /\ structure = TwoByTwo
    /\ numberOfParameters(structure) > 0
    /\ DOMAIN state.unitGradient = 1..numberOfParameters(structure)

C7_StepKeepsPreviousActivation ==
    [][(result'.call = "evalState" /\ result'.status = "ok") =>
          /\ state'.lastActivation = state.activation
          /\ result.call = "setOutputActivation" =>
                \A i \in OutputUnits :
                   state'.lastActivation[i] =
                      result.arg[i - OutputOffset(structure)]]_vars

\* A step taken right after setOutputActivation replaced the computed
\* output 0 by 1: the step returns w * 1 = 1/2.
C7_Witness ==
    /\ result.call = "evalState"
    /\ result.status = "ok"
    /\ structure = SingleNeuron
    /\ hist = << [op |-> "evalState", arg |-> <<0>>],
                 [op |-> "setOutputActivation", arg |-> <<One>>],
                 [op |-> "evalState", arg |-> <<0>>] >>
    /\ state.lastActivation[numberOfUnits(structure)] = One
    /\ result.value = <<Half>>

\* The scenario of C8: the inputs 1, 0, 0 fed to a fresh state of the
\* single-neuron topology, and what is expected after each step.
ScenarioInputs == << <<One>>, <<0>>, <<0>> >>
ScenarioOutputs == << <<One>>, <<Half>>, <<Quarter>> >>
ScenarioSensitivityW == <<0, One, One>>
ScenarioSensitivityV == <<One, Half, Quarter>>

InScenario(n) ==
    /\ structure = SingleNeuron
    /\ Created
    /\ Len(hist) = n
    /\ \A i \in 1..n : hist[i] = [op |-> "evalState", arg |-> ScenarioInputs[i]]

\* C8: in the scenario the three steps return 1, 1/2, 1/4, and the
\* sensitivities after each step are 0, 1, 1 for w and 1, 1/2, 1/4 for v.
C8_SingleNeuronScenario ==
    \A n \in 1..Len(ScenarioInputs) :
        InScenario(n) =>
            /\ Output(structure, state) = ScenarioOutputs[n]
            /\ (result.call = "evalState" /\ result.status = "ok") =>
                  result.value = ScenarioOutputs[n]
            /\ m_computeGradient =>
                  state.unitGradient =
                     << <<ScenarioSensitivityW[n]>>, <<ScenarioSensitivityV[n]>> >>

\* The third step of the scenario has returned, with gradients computed.
C8_Witness ==
    /\ InScenario(Len(ScenarioInputs))
    /\ m_computeGradient
    /\ result.call = "evalState"
    /\ result.status = "ok"

----------------------------------------------------------------------------
(* Properties of MeanModel, checked under MeanSpec.                        *)

\* C9: m_weightSum is the sum of the weights of the models in the ensemble,
\* and the real-valued eval divides the weighted sum of the outputs by it.
C9_WeightSumIsSumOfWeights ==
    /\ m_weightSum = SumTo(m_weight, Len(m_weight))
    /\ meanResult.call = "eval" =>
          meanResult.value[2] = SumTo(m_weight, Len(m_weight))

\* C10: every stored weight is above zero.
C10_WeightsArePositive ==
    \A i \in 1..Len(m_weight) : m_weight[i] > 0

============================================================================
